---- MODULE Spec2Model ----
(***************************************************************************)
(* PregnancyTracker: the JSON store (storage.py), its undo/redo stacks and *)
(* the legacy migration, modelled as a state machine, together with the    *)
(* prediction and month status functions (models.py).                      *)
(*                                                                         *)
(* In the store a calendar day is its ordinal number relative to a base    *)
(* date (day 1 is 2024-01-01); the ISO string of a valid date and its      *)
(* ordinal are in bijection, so dictionary keys "YYYY-MM-DD" are modelled  *)
(* by ordinals.  The prediction functions take and return ISO strings,     *)
(* modelled as triples <<year, month, day>>, and convert them with the     *)
(* proleptic Gregorian calendar of datetime.date.                          *)
(* `file` is the content of data.json as load_data() returns it (missing   *)
(* keys filled in by setdefault).                                          *)
(***************************************************************************)
EXTENDS Integers, Sequences, FiniteSets, TLC

\* ---------------------------------------------------------------- bounds
MaxDay == 2
MaxSexDay == 1
MaxStart == 1
MaxLegacyDay == 1
MaxLegacyLevelDay == 0
MaxDuration == 1
MaxOps == 3
MaxPeriodDay == 4
MaxCount == 52
MaxStarts == 3
MaxOffset == 3
MaxStatusOffset == 2
MaxRawDay == 1

\* ------------------------------------------------------ program constants
MaxUndo == 50
DefaultCycleLength == 28
DefaultLutealPhase == 14

Days == 1..MaxDay
PeriodDays == 1..MaxPeriodDay
SexDays == 1..MaxSexDay
Starts == 1..MaxStart
LegacyDays == 1..MaxLegacyDay
Durations == 1..MaxDuration
NoTheme == "none"
SettingsInputs ==
    { [cycle_length |-> 30, luteal_phase |-> 12, theme |-> "dark"],
      [cycle_length |-> 26, luteal_phase |-> 13, theme |-> NoTheme] }
\* settings arguments given as text: "abc" is text that int() rejects
NonNumeric == "abc"
TextSettingsInputs ==
    { [cycle_length |-> NonNumeric, luteal_phase |-> "12", theme |-> NoTheme],
      [cycle_length |-> "30", luteal_phase |-> NonNumeric, theme |-> "dark"],
      [cycle_length |-> "30", luteal_phase |-> "12", theme |-> "dark"] }
\* budget of a run whose length is not capped
Unbounded == 0 - 1

\* ------------------------------------------------------------ pure helpers
EmptyLevels == [d \in {} |-> 0]

SetMin(S) == CHOOSE m \in S : \A x \in S : m <= x

RECURSIVE sorted(_)
sorted(S) == IF S = {} THEN <<>>
             ELSE LET m == SetMin(S) IN <<m>> \o sorted(S \ {m})

\* dict.get(d, 0)
Get(levels, d) == IF d \in DOMAIN levels THEN levels[d] ELSE 0

\* del levels[d] for every d in S that is a key
DelKeys(levels, S) == [d \in (DOMAIN levels) \ S |-> levels[d]]

\* levels[d] = v
SetKey(levels, d, v) == [x \in (DOMAIN levels) \cup {d} |-> IF x = d THEN v ELSE levels[x]]

\* the grouping loop shared by _levels_to_periods and days_to_periods:
\* days is the sorted list, i the index of the next day to visit
RECURSIVE group_loop(_, _, _, _, _, _)
group_loop(days, i, periods, start, prev, duration) ==
    IF i > Len(days)
    THEN Append(periods, [start |-> start, duration |-> duration])
    ELSE LET d == days[i] IN
         IF d - prev = 1
         THEN group_loop(days, i + 1, periods, start, d, duration + 1)
         ELSE group_loop(days, i + 1,
                         Append(periods, [start |-> start, duration |-> duration]),
                         d, d, 1)

group_days(days) ==
    IF days = <<>> THEN <<>>
    ELSE group_loop(days, 2, <<>>, days[1], days[1], 1)

\* mutant: a day counts as a period day only above intensity 1
levels_to_periods_above_one(levels) ==
    group_days(sorted({d \in DOMAIN levels : levels[d] > 1}))

levels_to_periods(levels) ==
    group_days(sorted({d \in DOMAIN levels : levels[d] > 0}))

days_to_periods(days) == group_days(sorted(days))

default_data ==
    [ periods |-> <<>>,
      period_levels |-> EmptyLevels,
      sex |-> <<>>,
      settings |-> [cycle_length |-> DefaultCycleLength,
                    luteal_phase |-> DefaultLutealPhase,
                    theme |-> NoTheme],
      has_period_days |-> FALSE,
      period_days |-> {} ]

\* mutant: the dict is written with the periods list it came with
save_data_keeps_periods(data) == data

\* what save_data writes for the dict `data`
save_data(data) == [data EXCEPT !.periods = levels_to_periods(data.period_levels)]

\* mutant: beyond the bound the newest snapshot is dropped (pop() for pop(0))
push_undo_drops_newest(stack, data) ==
    LET s == Append(stack, data) IN
    IF Len(s) > MaxUndo THEN SubSeq(s, 1, Len(s) - 1) ELSE s

\* _record_undo_state: append a deep copy, drop the oldest beyond the bound
push_undo(stack, data) ==
    LET s == Append(stack, data) IN
    IF Len(s) > MaxUndo THEN Tail(s) ELSE s

Last(s) == s[Len(s)]
Front(s) == SubSeq(s, 1, Len(s) - 1)

RECURSIVE seq_remove(_, _)
\* list.remove(x): drops the first occurrence
seq_remove(s, x) ==
    IF s = <<>> THEN <<>>
    ELSE IF Head(s) = x THEN Tail(s)
    ELSE <<Head(s)>> \o seq_remove(Tail(s), x)

InSeq(x, s) == \E i \in 1..Len(s) : s[i] = x

\* next(p for p in periods if p.start == s), duration or 0 when there is none
FindDuration(periods, s) ==
    IF \E i \in 1..Len(periods) : periods[i].start = s
    THEN periods[CHOOSE i \in 1..Len(periods) :
                   /\ periods[i].start = s
                   /\ \A j \in 1..(i - 1) : periods[j].start # s].duration
    ELSE 0

HasPeriod(periods, s) == \E i \in 1..Len(periods) : periods[i].start = s

\* mutant: a day of the span is raised by one level instead of to at least 1
add_days_raises(levels, start, duration) ==
    LET span == {start + i : i \in 0..(duration - 1)} IN
    [d \in (DOMAIN levels) \cup span |->
        IF d \in span THEN Get(levels, d) + 1 ELSE levels[d]]

\* for i in range(duration): levels[d] = max(levels.get(d, 0), 1)
add_days(levels, start, duration) ==
    LET span == {start + i : i \in 0..(duration - 1)} IN
    [d \in (DOMAIN levels) \cup span |->
        IF d \in span
        THEN (IF Get(levels, d) > 1 THEN Get(levels, d) ELSE 1)
        ELSE levels[d]]

\* for i in range(dur): del levels[d] if present
remove_days(levels, start, duration) ==
    DelKeys(levels, {start + i : i \in 0..(duration - 1)})

\* mutant: the wrap-around test is cur > 3
cycle_level_wraps_late(levels, d) ==
    LET cur == Get(levels, d) IN
    IF cur > 3 THEN DelKeys(levels, {d}) ELSE SetKey(levels, d, cur + 1)

\* the body of toggle_period_day on the levels dict
cycle_level(levels, d) ==
    LET cur == Get(levels, d) IN
    IF cur >= 3 THEN DelKeys(levels, {d}) ELSE SetKey(levels, d, cur + 1)

\* mutant: every legacy day is set to 1, whatever it held
migrate_levels_overwrites(levels, legacy) ==
    [d \in (DOMAIN levels) \cup legacy |-> IF d \in legacy THEN 1 ELSE levels[d]]

\* the loop of migrate_period_days_to_levels
migrate_levels(levels, legacy) ==
    [d \in (DOMAIN levels) \cup legacy |->
        IF d \in legacy /\ (d \notin DOMAIN levels \/ Get(levels, d) < 1)
        THEN 1 ELSE levels[d]]

\* ------------------------------------------------------ load_data
\* What is on disk before load_data runs: no file ("missing"), a file that
\* json.load rejects ("garbage": empty, truncated, not JSON), or a JSON value.
\* A JSON value is an object with some set of keys, or an array, null or a
\* number ("other").  An object is given by its key set and the values of
\* those keys (the fields of `data` for keys it lacks are not on disk).
StateKeys == {"periods", "period_levels", "sex", "settings"}

\* data.setdefault(k, default) for the four keys of the state
with_defaults(obj) ==
    [ periods |-> IF "periods" \in obj.keys THEN obj.data.periods
                  ELSE default_data.periods,
      period_levels |-> IF "period_levels" \in obj.keys THEN obj.data.period_levels
                        ELSE default_data.period_levels,
      sex |-> IF "sex" \in obj.keys THEN obj.data.sex ELSE default_data.sex,
      settings |-> IF "settings" \in obj.keys THEN obj.data.settings
                   ELSE default_data.settings,
      has_period_days |-> "period_days" \in obj.keys,
      period_days |-> IF "period_days" \in obj.keys THEN obj.data.period_days ELSE {} ]

\* load_data: the value returned, or the exception that leaves it; write_ok
\* tells whether data.json can be written when load_data saves the default
load_data(raw, write_ok) ==
    IF raw.kind \in {"missing", "garbage"}
    THEN IF write_ok
         THEN [raised |-> "no", data |-> save_data(default_data)]
         ELSE [raised |-> "OSError"]
    ELSE IF raw.type # "object"
         THEN [raised |-> "AttributeError"]
         ELSE [raised |-> "no", data |-> with_defaults(raw)]

\* ------------------------------------------------- dates (datetime.date)
\* An ISO string "YYYY-MM-DD" is the triple <<year, month, day>>; a date object
\* is its proleptic Gregorian ordinal (date.toordinal(), 0001-01-01 being 1).
IsLeap(y) == (y % 4 = 0 /\ y % 100 # 0) \/ y % 400 = 0

DaysInMonth(y, m) ==
    IF m = 2 THEN (IF IsLeap(y) THEN 29 ELSE 28)
    ELSE IF m \in {4, 6, 9, 11} THEN 30 ELSE 31

DaysBeforeYear(y) ==
    LET n == y - 1 IN n * 365 + (n \div 4) - (n \div 100) + (n \div 400)

\* days of the year before the first day of month m
DaysBeforeMonth(y, m) ==
    <<0, 31, 59, 90, 120, 151, 181, 212, 243, 273, 304, 334>>[m]
      + (IF m > 2 /\ IsLeap(y) THEN 1 ELSE 0)

\* date(y, m, d).toordinal()
ymd2ord(y, m, d) == DaysBeforeYear(y) + DaysBeforeMonth(y, m) + d

\* strptime(s, "%Y-%m-%d") accepts s
ValidIso(s) ==
    /\ s[1] \in 1..9999
    /\ s[2] \in 1..12
    /\ s[3] \in 1..DaysInMonth(s[1], s[2])

\* to_date(s) for a string strptime accepts
to_date(s) == ymd2ord(s[1], s[2], s[3])

\* [to_date(s) for s in isos] is evaluated without strptime raising ValueError
all_parse(isos) == \A i \in 1..Len(isos) : ValidIso(isos[i])

\* iso(d): date.fromordinal(d).isoformat()
iso(n) ==
    LET y == CHOOSE c \in (n \div 366)..((n \div 365) + 1) :
                 DaysBeforeYear(c) < n /\ n <= DaysBeforeYear(c + 1)
        r == n - DaysBeforeYear(y)
        m == CHOOSE c \in 1..12 :
                 DaysBeforeMonth(y, c) < r /\ r <= DaysBeforeMonth(y, c) + DaysInMonth(y, c)
    IN <<y, m, r - DaysBeforeMonth(y, m)>>

\* ------------------------------------------------- predictions (models.py)
\* a list comprehension: the list of the values f[1], ..., f[n], built once
list(f) == f \o <<>>

\* sorted(list of dates)
sorted_list(s) == SortSeq(s, LAMBDA a, b : a < b)

RECURSIVE SeqSum(_)
SeqSum(s) == IF s = <<>> THEN 0 ELSE Head(s) + SeqSum(Tail(s))

\* mutant: a mean ending in .5 is rounded up
round_half_up(num, den) == (2 * num + den) \div (2 * den)

\* int(round(num / den)) for den > 0: Python 3 and numpy round a mean ending
\* in .5 to the even neighbour
round_mean(num, den) ==
    LET q == num \div den
        r == num % den
    IN IF 2 * r < den THEN q
       ELSE IF 2 * r > den THEN q + 1
       ELSE IF q % 2 = 0 THEN q ELSE q + 1

\* avg_cycle of predict_from_periods for the sorted, non-empty list `starts`
avg_cycle_of(starts, cycle_length) ==
    IF Len(starts) >= 2
    THEN LET diffs == [i \in 1..(Len(starts) - 1) |-> starts[i + 1] - starts[i]]
         IN round_mean(SeqSum(diffs), Len(diffs))
    ELSE cycle_length

\* mutant: the loop stops before the term that lies exactly days_to_predict
\* after the last start
forecast_loop_stops_early(last_start, avg_cycle, days_to_predict) ==
    LET n == IF days_to_predict <= 0 THEN 0
             ELSE ((days_to_predict - 1) \div avg_cycle) + 1
    IN list([i \in 1..n |-> last_start + (i - 1) * avg_cycle])

\* while (cur - last).days <= days_to_predict: append cur; cur += avg_cycle
\* for avg_cycle > 0: the k-th pass sees cur = last + (k - 1) * avg_cycle, so
\* the loop makes days_to_predict \div avg_cycle + 1 passes (none when
\* days_to_predict < 0) and appends cur in each
forecast_loop(last_start, avg_cycle, days_to_predict) ==
    LET n == IF days_to_predict < 0 THEN 0
             ELSE (days_to_predict \div avg_cycle) + 1
    IN list([i \in 1..n |-> last_start + (i - 1) * avg_cycle])

\* the value returned for an empty list of starts
predict_empty(cycle_length) ==
    [outcome |-> "ok", ovulations |-> <<>>, fertile_windows |-> <<>>,
     predicted_cycles |-> <<>>]

\* mutant: the fertile window ends on the ovulation day
fertile_window_ends_early(ov) == <<ov - 5, ov>>

\* the fertile window of the ovulation day ov
fertile_window(ov) == <<ov - 5, ov + 1>>

\* the ovulation day of the cycle that starts on `start`
ovulation(start, avg_cycle, luteal_phase) == start + (avg_cycle - luteal_phase)

\* predict_from_periods; a start that strptime rejects makes to_date raise
\* ValueError out of the call; with avg_cycle = 0 the while loop never ends,
\* with avg_cycle < 0 it runs until date arithmetic leaves year 1
\* (OverflowError)
predict_from_periods(period_starts, cycle_length, luteal_phase, lookahead_months) ==
    IF ~all_parse(period_starts) THEN [outcome |-> "ValueError"]
    ELSE
    LET starts == sorted_list(list([i \in 1..Len(period_starts) |->
                                       to_date(period_starts[i])]))
    IN IF starts = <<>> THEN predict_empty(cycle_length)
       ELSE
       LET avg_cycle == avg_cycle_of(starts, cycle_length)
           last_start == starts[Len(starts)]
       IN IF avg_cycle = 0 THEN [outcome |-> "diverges"]
          ELSE IF avg_cycle < 0 THEN [outcome |-> "OverflowError"]
          ELSE
          LET predicted == forecast_loop(last_start, avg_cycle, lookahead_months * 31)
              ovulations == list([i \in 1..Len(predicted) |->
                                ovulation(predicted[i], avg_cycle, luteal_phase)])
              windows == list([i \in 1..Len(predicted) |->
                                fertile_window(ovulations[i])])
          IN [outcome |-> "ok",
              ovulations |-> list([i \in 1..Len(predicted) |-> iso(ovulations[i])]),
              fertile_windows |-> list([i \in 1..Len(predicted) |->
                                      <<iso(windows[i][1]), iso(windows[i][2])>>]),
              predicted_cycles |-> list([i \in 1..Len(predicted) |-> iso(predicted[i])]),
              avg_cycle |-> avg_cycle]

\* mutant: the day after the last day of an interval still counts as period
in_span_inclusive(cur, p) ==
    to_date(p.start) <= cur /\ cur <= to_date(p.start) + p.duration

\* pd <= cur < pd + timedelta(days=dur)
in_span(cur, p) ==
    to_date(p.start) <= cur /\ cur < to_date(p.start) + p.duration

\* the set sset that day_status_for_month builds for the date cur
day_tags(cur, periods, period_days, sex_dates, ov, fw) ==
    (IF \/ \E i \in 1..Len(period_days) : to_date(period_days[i]) = cur
        \/ \E i \in 1..Len(periods) : in_span(cur, periods[i])
     THEN {"period"} ELSE {})
    \cup (IF \E i \in 1..Len(sex_dates) : sex_dates[i] = iso(cur)
          THEN {"sex"} ELSE {})
    \cup (IF \E i \in 1..Len(ov) : ov[i] = cur THEN {"ovulation"} ELSE {})
    \cup (IF \E i \in 1..Len(fw) : fw[i][1] <= cur /\ cur <= fw[i][2]
          THEN {"fertile"} ELSE {})

\* day_status_for_month: the dict ISO date -> set of status strings.  The
\* prediction is computed first, from every start of `periods`, so the
\* try/except around to_date(p.get('start')) in the loop only meets starts
\* that have parsed already; to_date(pd_str) of a present day is not guarded
\* and raises ValueError on the first day of the month.  A string of
\* sex_dates is compared as text and never parsed.
day_status_for_month(periods, period_days, sex_dates, cycle_length, luteal_phase, year, month) ==
    LET period_starts == list([i \in 1..Len(periods) |-> periods[i].start])
        pred == predict_from_periods(period_starts, cycle_length, luteal_phase, 6)
    IN IF pred.outcome # "ok" THEN [outcome |-> pred.outcome]
       ELSE IF ~all_parse(period_days) THEN [outcome |-> "ValueError"]
       ELSE
       LET fw == list([i \in 1..Len(pred.fertile_windows) |->
                     <<to_date(pred.fertile_windows[i][1]),
                       to_date(pred.fertile_windows[i][2])>>])
           ov == list([i \in 1..Len(pred.ovulations) |-> to_date(pred.ovulations[i])])
           ndays == DaysInMonth(year, month)
           sset == [d \in 1..ndays |->
                      day_tags(ymd2ord(year, month, d), periods, period_days,
                               sex_dates, ov, fw)]
       IN [outcome |-> "ok",
           status |-> [k \in {iso(ymd2ord(year, month, d)) :
                                d \in {e \in 1..ndays : sset[e] # {}}} |->
                         sset[k[3]]]]

\* ------------------------------------------------------------------- state
VARIABLES file, undo_stack, redo_stack, last, last2, prev, run, und, budget,
          query, trip

vars == <<file, undo_stack, redo_stack, last, last2, prev, run, und, budget,
          query, trip>>

NoArg == <<0, 0>>
NoOp == [op |-> "init", arg |-> NoArg, ret |-> "None"]
NoRun == [day |-> 0, n |-> 0, from |-> 0]
\* query: the last read-only call (a prediction, a month status, a load),
\* its arguments and what it returned
NoQuery == [op |-> "none"]

\* trip: the undos made in a row and the redos that follow them.  `bases`
\* holds, for each successful undo of the row not yet matched by a redo, the
\* data and the two stacks that undo found; a successful redo takes the newest
\* of them as `expect`, what the program held before the matching undo.  A
\* trip that is "off" stays off: the runs that do not follow trips.
NoBase == <<default_data, <<>>, <<>>>>
NoTrip == [phase |-> "off", bases |-> <<>>, expect |-> NoBase]
IdleTrip == [phase |-> "idle", bases |-> <<>>, expect |-> NoBase]

NextTrip(name, r) ==
    IF trip.phase = "off" THEN trip
    ELSE IF name = "undo" /\ r = "True"
    THEN [phase |-> "undoing",
          bases |-> Append(IF trip.phase = "undoing" THEN trip.bases ELSE <<>>,
                           <<file, undo_stack, redo_stack>>),
          expect |-> NoBase]
    ELSE IF name = "redo" /\ r = "True"
    THEN IF trip.bases # <<>>
         THEN [phase |-> "redoing",
               bases |-> SubSeq(trip.bases, 1, Len(trip.bases) - 1),
               expect |-> trip.bases[Len(trip.bases)]]
         ELSE IdleTrip
    ELSE IF name \in {"undo", "redo"} THEN trip
    ELSE IdleTrip

\* history of the call sequence, kept for the properties only
Note(name, a, r) ==
    /\ budget # 0
    /\ budget' = IF budget > 0 THEN budget - 1 ELSE budget
    /\ last' = [op |-> name, arg |-> a, ret |-> r]
    /\ last2' = last
    /\ prev' = file
    /\ query' = query
    /\ trip' = NextTrip(name, r)

\* und: the data at process start, the number of mutations since then, the
\* data after the first of them, and the successful undos right after them
Capped(n) == IF n < MaxCount THEN n + 1 ELSE MaxCount

OtherPhase == [phase |-> "other", nmut |-> 0, nundo |-> 0,
               start |-> default_data, first |-> default_data]

NoteMutation ==
    und' = IF und.phase = "mutating"
           THEN [und EXCEPT !.nmut = Capped(@),
                            !.first = IF und.nmut = 0 THEN file' ELSE @]
           ELSE OtherPhase

NoteUndo(ok) ==
    und' = IF und.phase \in {"mutating", "undoing"}
           THEN [und EXCEPT !.phase = "undoing",
                            !.nundo = IF ok THEN Capped(@) ELSE @]
           ELSE und

NoteRedo(ok) ==
    und' = IF ok THEN OtherPhase ELSE und

\* mutant: the snapshot is taken but the redo stack is not cleared
Mutate_keeps_redo(name, a, data) ==
    /\ undo_stack' = push_undo(undo_stack, file)
    /\ redo_stack' = redo_stack
    /\ file' = save_data(data)
    /\ Note(name, a, "None")
    /\ NoteMutation

\* a mutating operation: snapshot, change, save
Mutate(name, a, data) ==
    /\ undo_stack' = push_undo(undo_stack, file)
    /\ redo_stack' = <<>>
    /\ file' = save_data(data)
    /\ Note(name, a, "None")
    /\ NoteMutation

\* ----------------------------------------------------------------- actions
toggle_period_day(d) ==
    /\ Mutate("toggle_period_day", <<d, 0>>,
              [file EXCEPT !.period_levels = cycle_level(@, d)])
    /\ run' = IF last.op = "toggle_period_day" /\ run.day = d /\ run.n < 4
              THEN [run EXCEPT !.n = @ + 1]
              ELSE [day |-> d, n |-> 1, from |-> Get(file.period_levels, d)]

\* mutant: the day is appended whether or not the list holds it
add_sex_appends_always(d) ==
    /\ Mutate("add_sex", <<d, 0>>, [file EXCEPT !.sex = Append(@, d)])
    /\ run' = NoRun

toggle_sex(d) ==
    /\ Mutate("toggle_sex", <<d, 0>>,
              [file EXCEPT !.sex = IF InSeq(d, @) THEN seq_remove(@, d)
                                   ELSE Append(@, d)])
    /\ run' = NoRun

add_sex(d) ==
    /\ Mutate("add_sex", <<d, 0>>,
              [file EXCEPT !.sex = IF InSeq(d, @) THEN @ ELSE Append(@, d)])
    /\ run' = NoRun

set_settings(s) ==
    /\ Mutate("set_settings", <<s.cycle_length, s.luteal_phase>>,
              [file EXCEPT !.settings =
                  [cycle_length |-> s.cycle_length,
                   luteal_phase |-> s.luteal_phase,
                   theme |-> IF s.theme # NoTheme THEN s.theme ELSE @.theme]])
    /\ run' = NoRun

\* int(x) returns for the text x
IsNumeric(x) == x \in {"12", "30"}

\* int(x) for such a text
int(x) == IF x = "12" THEN 12 ELSE 30

\* set_settings called with text: _record_undo_state() runs first; int() of
\* a non-numeric argument then raises ValueError, before anything is saved
set_settings_text(s) ==
    /\ IF IsNumeric(s.cycle_length) /\ IsNumeric(s.luteal_phase)
       THEN Mutate("set_settings_text", <<s.cycle_length, s.luteal_phase>>,
                   [file EXCEPT !.settings =
                       [cycle_length |-> int(s.cycle_length),
                        luteal_phase |-> int(s.luteal_phase),
                        theme |-> IF s.theme # NoTheme THEN s.theme ELSE @.theme]])
       ELSE /\ undo_stack' = push_undo(undo_stack, file)
            /\ redo_stack' = <<>>
            /\ file' = file
            /\ Note("set_settings_text", <<s.cycle_length, s.luteal_phase>>,
                    "ValueError")
            /\ NoteMutation
    /\ run' = NoRun

add_period(start, duration) ==
    /\ Mutate("add_period", <<start, duration>>,
              [file EXCEPT !.period_levels = add_days(@, start, duration)])
    /\ run' = NoRun

\* the dict remove_period hands to save_data when load_data returned `data`
remove_period_data(data, start) ==
    [data EXCEPT !.period_levels =
        IF HasPeriod(data.periods, start)
        THEN remove_days(@, start, FindDuration(data.periods, start))
        ELSE @]

remove_period(start) ==
    /\ Mutate("remove_period", <<start, 0>>, remove_period_data(file, start))
    /\ run' = NoRun

\* mutant: the days of the old interval are not removed before the new span
\* is marked
edit_period_keeps_old_days(data, start, new_duration) ==
    [data EXCEPT !.period_levels =
        IF HasPeriod(data.periods, start)
        THEN add_days(@, start, new_duration)
        ELSE @]

\* the dict edit_period hands to save_data when load_data returned `data`
edit_period_data(data, start, new_duration) ==
    [data EXCEPT !.period_levels =
        IF HasPeriod(data.periods, start)
        THEN add_days(remove_days(@, start, FindDuration(data.periods, start)),
                      start, new_duration)
        ELSE @]

edit_period(start, new_duration) ==
    /\ Mutate("edit_period", <<start, new_duration>>,
              edit_period_data(file, start, new_duration))
    /\ run' = NoRun

clear_all ==
    /\ Mutate("clear_all", NoArg, default_data)
    /\ run' = NoRun

\* mutant: the period_days key is not deleted
migrated_keeps_legacy(data) ==
    [data EXCEPT !.period_levels = migrate_levels(@, data.period_days)]

\* the dict migrate_period_days_to_levels hands to save_data
migrated(data) ==
    [data EXCEPT !.period_levels = migrate_levels(@, data.period_days),
                 !.has_period_days = FALSE,
                 !.period_days = {}]

\* mutant: the undo snapshot is recorded after the migrated data is saved
migrate_snapshot_after_save ==
    /\ run' = NoRun
    /\ IF ~file.has_period_days \/ file.period_days = {}
       THEN /\ Note("migrate", NoArg, "False")
            /\ UNCHANGED <<file, undo_stack, redo_stack, und>>
       ELSE /\ undo_stack' = push_undo(undo_stack, save_data(migrated(file)))
            /\ redo_stack' = <<>>
            /\ file' = save_data(migrated(file))
            /\ Note("migrate", NoArg, "True")
            /\ NoteMutation

migrate_period_days_to_levels ==
    /\ run' = NoRun
    /\ IF ~file.has_period_days \/ file.period_days = {}
       THEN /\ Note("migrate", NoArg, "False")
            /\ UNCHANGED <<file, undo_stack, redo_stack, und>>
       ELSE /\ undo_stack' = push_undo(undo_stack, file)
            /\ redo_stack' = <<>>
            /\ file' = save_data(migrated(file))
            /\ Note("migrate", NoArg, "True")
            /\ NoteMutation

\* mutant: undo puts the snapshot it restores, not the current data, on the
\* redo stack
undo_redo_gets_restored ==
    /\ run' = NoRun
    /\ IF undo_stack = <<>>
       THEN /\ Note("undo", NoArg, "False")
            /\ NoteUndo(FALSE)
            /\ UNCHANGED <<file, undo_stack, redo_stack>>
       ELSE /\ redo_stack' = Append(redo_stack, Last(undo_stack))
            /\ undo_stack' = Front(undo_stack)
            /\ file' = save_data(Last(undo_stack))
            /\ Note("undo", NoArg, "True")
            /\ NoteUndo(TRUE)

undo ==
    /\ run' = NoRun
    /\ IF undo_stack = <<>>
       THEN /\ Note("undo", NoArg, "False")
            /\ NoteUndo(FALSE)
            /\ UNCHANGED <<file, undo_stack, redo_stack>>
       ELSE /\ redo_stack' = Append(redo_stack, file)
            /\ undo_stack' = Front(undo_stack)
            /\ file' = save_data(Last(undo_stack))
            /\ Note("undo", NoArg, "True")
            /\ NoteUndo(TRUE)

\* mutant: redo restores the newest redo snapshot but leaves it on the stack
redo_keeps_snapshot ==
    /\ run' = NoRun
    /\ IF redo_stack = <<>>
       THEN /\ Note("redo", NoArg, "False")
            /\ NoteRedo(FALSE)
            /\ UNCHANGED <<file, undo_stack, redo_stack>>
       ELSE /\ undo_stack' = Append(undo_stack, file)
            /\ redo_stack' = redo_stack
            /\ file' = save_data(Last(redo_stack))
            /\ Note("redo", NoArg, "True")
            /\ NoteRedo(TRUE)

\* mutant: redo restores the oldest snapshot of the redo stack
redo_takes_oldest ==
    /\ run' = NoRun
    /\ IF redo_stack = <<>>
       THEN /\ Note("redo", NoArg, "False")
            /\ NoteRedo(FALSE)
            /\ UNCHANGED <<file, undo_stack, redo_stack>>
       ELSE /\ undo_stack' = Append(undo_stack, file)
            /\ redo_stack' = Tail(redo_stack)
            /\ file' = save_data(Head(redo_stack))
            /\ Note("redo", NoArg, "True")
            /\ NoteRedo(TRUE)

\* mutant: redo on an empty stack still records the current data for undo
redo_empty_pushes ==
    /\ run' = NoRun
    /\ IF redo_stack = <<>>
       THEN /\ Note("redo", NoArg, "False")
            /\ NoteRedo(FALSE)
            /\ undo_stack' = Append(undo_stack, file)
            /\ UNCHANGED <<file, redo_stack>>
       ELSE /\ undo_stack' = Append(undo_stack, file)
            /\ redo_stack' = Front(redo_stack)
            /\ file' = save_data(Last(redo_stack))
            /\ Note("redo", NoArg, "True")
            /\ NoteRedo(TRUE)

redo ==
    /\ run' = NoRun
    /\ IF redo_stack = <<>>
       THEN /\ Note("redo", NoArg, "False")
            /\ NoteRedo(FALSE)
            /\ UNCHANGED <<file, undo_stack, redo_stack>>
       ELSE /\ undo_stack' = Append(undo_stack, file)
            /\ redo_stack' = Front(redo_stack)
            /\ file' = save_data(Last(redo_stack))
            /\ Note("redo", NoArg, "True")
            /\ NoteRedo(TRUE)

\* ------------------------------------------- operations whose write fails
\* save_data raises (OSError) when data.json cannot be written.  open(path,
\* "w") either fails, leaving the file as it was, or truncates the file and
\* the dump fails part-way, leaving text that json.load rejects: the next
\* load_data then returns the default.
after_failed_write(data) == {data, default_data}

\* toggle_period_day when the write fails: the snapshot is recorded, then
\* save_data raises out of the call
toggle_period_day_write_fails(d) ==
    /\ undo_stack' = push_undo(undo_stack, file)
    /\ redo_stack' = <<>>
    /\ file' \in after_failed_write(file)
    /\ Note("toggle_period_day_write_fails", <<d, 0>>, "OSError")
    /\ und' = OtherPhase
    /\ run' = NoRun

\* migration of a legacy list when the write fails
migrate_write_fails ==
    /\ file.has_period_days /\ file.period_days # {}
    /\ undo_stack' = push_undo(undo_stack, file)
    /\ redo_stack' = <<>>
    /\ file' \in after_failed_write(file)
    /\ Note("migrate_write_fails", NoArg, "OSError")
    /\ und' = OtherPhase
    /\ run' = NoRun

\* undo when the write fails: both stacks have moved when save_data raises,
\* and the except clause turns the exception into False
undo_write_fails ==
    /\ undo_stack # <<>>
    /\ redo_stack' = Append(redo_stack, file)
    /\ undo_stack' = Front(undo_stack)
    /\ file' \in after_failed_write(file)
    /\ Note("undo_write_fails", NoArg, "False")
    /\ und' = OtherPhase
    /\ run' = NoRun

\* redo when the write fails
redo_write_fails ==
    /\ redo_stack # <<>>
    /\ undo_stack' = Append(undo_stack, file)
    /\ redo_stack' = Front(redo_stack)
    /\ file' \in after_failed_write(file)
    /\ Note("redo_write_fails", NoArg, "False")
    /\ und' = OtherPhase
    /\ run' = NoRun

\* a read-only call leaves the data file, the stacks and the history alone
QueryFrame ==
    UNCHANGED <<file, undo_stack, redo_stack, last, last2, prev, run, und, budget,
                trip>>

\* a call of predict_from_periods, as the statistics and calendar views make it
predict(period_starts, cycle_length, luteal_phase, lookahead_months) ==
    /\ query' = [op |-> "predict", starts |-> period_starts,
                 cycle_length |-> cycle_length, luteal_phase |-> luteal_phase,
                 lookahead_months |-> lookahead_months,
                 out |-> predict_from_periods(period_starts, cycle_length,
                                              luteal_phase, lookahead_months)]
    /\ QueryFrame

\* a call of day_status_for_month, as the calendar views make it
month_status(periods, period_days, sex_dates, cycle_length, luteal_phase, year, month) ==
    /\ query' = [op |-> "month_status", periods |-> periods,
                 period_days |-> period_days, sex_dates |-> sex_dates,
                 cycle_length |-> cycle_length, luteal_phase |-> luteal_phase,
                 year |-> year, month |-> month,
                 out |-> day_status_for_month(periods, period_days, sex_dates,
                                              cycle_length, luteal_phase,
                                              year, month)]
    /\ QueryFrame

\* the ISO string that is the key of the stored day d: day 1 is 2024-01-01
StorageEpoch == to_date(<<2023, 12, 31>>)
day_iso(d) == iso(StorageEpoch + d)

\* the stored periods list as the JSON file holds it
stored_periods(data) ==
    list([i \in 1..Len(data.periods) |->
            [start |-> day_iso(data.periods[i].start),
             duration |-> data.periods[i].duration]])

\* the month status as the calendar views compute it from the loaded data:
\* the stored periods list, the keys of period_levels, the sex list
status_of(data, year, month) ==
    LET keys == sorted(DOMAIN data.period_levels)
    IN day_status_for_month(
           stored_periods(data),
           list([i \in 1..Len(keys) |-> day_iso(keys[i])]),
           list([i \in 1..Len(data.sex) |-> day_iso(data.sex[i])]),
           data.settings.cycle_length, data.settings.luteal_phase, year, month)

\* the prediction as the statistics view computes it from the loaded data
prediction_of(data) ==
    predict_from_periods(
        list([i \in 1..Len(data.periods) |-> day_iso(data.periods[i].start)]),
        data.settings.cycle_length, data.settings.luteal_phase, 3)

\* load_data run on whatever is on disk, as every process start does
load(raw, write_ok) ==
    LET out == load_data(raw, write_ok)
    IN /\ query' = [op |-> "load_data", raw |-> raw, write_ok |-> write_ok,
                    out |-> out]
       /\ file' = IF out.raised = "no" THEN out.data ELSE file
       /\ UNCHANGED <<undo_stack, redo_stack, last, last2, prev, run, und, budget,
                      trip>>

\* ---------------------------------------------------------- specifications
\* levels an older data.json may hold for a day (0 is a stored "unset")
InitLevelValues == {0, 2}

LegacyLevels ==
    UNION { [S -> InitLevelValues] : S \in SUBSET (1..MaxLegacyLevelDay) }

\* data.json as an older version left it: a period_days list, and a periods
\* list derived either from period_levels or (fix_periods.py) from period_days
LegacyFiles ==
    { [default_data EXCEPT !.period_levels = L,
                           !.has_period_days = TRUE,
                           !.period_days = D,
                           !.periods = P] :
        <<L, D, P>> \in
          { t \in LegacyLevels \X (SUBSET LegacyDays) \X
                  { days_to_periods(D2) : D2 \in SUBSET (Days) } :
              t[3] \in {levels_to_periods(t[1]), days_to_periods(t[2])} } }

InitHistory ==
    /\ undo_stack = <<>>
    /\ redo_stack = <<>>
    /\ last = NoOp
    /\ last2 = NoOp
    /\ prev = file
    /\ run = NoRun
    /\ query = NoQuery
    /\ trip = NoTrip
    /\ und = [phase |-> "mutating", nmut |-> 0, nundo |-> 0,
              start |-> file, first |-> file]

Init ==
    /\ file \in {default_data} \cup LegacyFiles
    /\ budget = MaxOps
    /\ InitHistory

Next ==
    \/ \E d \in Days : toggle_period_day(d)
    \/ \E d \in SexDays : toggle_sex(d)
    \/ \E d \in SexDays : add_sex(d)
    \/ \E s \in SettingsInputs : set_settings(s)
    \/ \E d \in Starts, n \in Durations : add_period(d, n)
    \/ \E d \in Starts : remove_period(d)
    \/ \E d \in Starts, n \in Durations : edit_period(d, n)
    \/ clear_all
    \/ migrate_period_days_to_levels
    \/ undo
    \/ redo

Spec == Init /\ [][Next]_vars

\* a fresh process on a new or legacy data file, tapping one day, undoing and
\* redoing, for as long as the user likes
InitFresh ==
    /\ file \in {default_data} \cup LegacyFiles
    /\ budget = Unbounded
    /\ InitHistory

NextFresh ==
    \/ toggle_period_day(1)
    \/ undo
    \/ redo

SpecFresh == InitFresh /\ [][NextFresh]_vars

\* a new data file on which only period days are marked and removed
InitPeriods ==
    /\ file = default_data
    /\ budget = MaxOps
    /\ InitHistory

NextPeriods ==
    \/ \E d \in PeriodDays : toggle_period_day(d)
    \/ \E d \in PeriodDays, n \in Durations : add_period(d, n)
    \/ \E d \in PeriodDays : remove_period(d)

SpecPeriods == InitPeriods /\ [][NextPeriods]_vars

\* the prediction functions called on their own, with any arguments
FirstDay == to_date(<<2024, 1, 1>>)
PredDates == {iso(FirstDay + k) : k \in 0..MaxOffset} \cup {<<2024, 1, 29>>}
RECURSIVE SeqsUpTo(_, _)
SeqsUpTo(S, n) ==
    IF n = 0 THEN {<<>>}
    ELSE LET shorter == SeqsUpTo(S, n - 1)
         IN shorter \cup {Append(q, x) : q \in shorter, x \in S}
StartLists == SeqsUpTo(PredDates, MaxStarts)
\* configured <<cycle_length, luteal_phase>>
SettingPairs == {<<DefaultCycleLength, DefaultLutealPhase>>, <<3, 2>>, <<3, 5>>}
LookaheadMonths == {0, 3, 6}

\* the days around the end of January 2024, and the two months they lie in
StatusFirstDay == to_date(<<2024, 1, 30>>)
StatusDays == {StatusFirstDay + k : k \in 0..MaxStatusOffset}
StatusMonths == {<<2024, 1>>, <<2024, 2>>}
\* the interval list of a set of days, and the lists of at most one day
IsoPeriods(D) ==
    LET q == days_to_periods(D)
    IN [i \in 1..Len(q) |-> [start |-> iso(q[i].start), duration |-> q[i].duration]]
DayLists == {<<>>} \cup {<<iso(d)>> : d \in StatusDays}

InitPredict ==
    /\ file = default_data
    /\ budget = Unbounded
    /\ InitHistory

\* one call per run: the functions keep no state between calls
NextPredict ==
    /\ query = NoQuery
    /\ \/ \E ps \in StartLists, cl \in SettingPairs, la \in LookaheadMonths :
             predict(ps, cl[1], cl[2], la)

SpecPredict == InitPredict /\ [][NextPredict]_vars

\* the month status query called on its own, with any arguments
NextStatus ==
    /\ query = NoQuery
    /\ \/ \E P \in SUBSET StatusDays, pd \in DayLists, sx \in DayLists,
             cl \in SettingPairs, ym \in StatusMonths :
             month_status(IsoPeriods(P), pd, sx, cl[1], cl[2], ym[1], ym[2])

SpecStatus == InitPredict /\ [][NextStatus]_vars

\* the settings dialog given any text, between taps, undos and redos
NextSettings ==
    \/ toggle_period_day(1)
    \/ \E s \in SettingsInputs : set_settings(s)
    \/ \E s \in TextSettingsInputs : set_settings_text(s)
    \/ undo
    \/ redo

SpecSettings == Init /\ [][NextSettings]_vars

\* taps, migration, undo and redo on a backend whose writes may fail
NextFail ==
    \/ toggle_period_day(1)
    \/ migrate_period_days_to_levels
    \/ undo
    \/ redo
    \/ toggle_period_day_write_fails(1)
    \/ migrate_write_fails
    \/ undo_write_fails
    \/ redo_write_fails

SpecFail == Init /\ [][NextFail]_vars

\* load_data on any content of data.json
RawDays == 1..MaxRawDay
RawObjects ==
    { [kind |-> "json", type |-> "object", keys |-> K, data |-> d] :
        K \in SUBSET (StateKeys \cup {"period_days"}),
        d \in { [ periods |-> days_to_periods(P),
                  period_levels |-> [x \in L |-> 2],
                  sex |-> sorted(S),
                  settings |-> st,
                  has_period_days |-> TRUE,
                  period_days |-> D ] :
                P \in SUBSET RawDays, L \in SUBSET RawDays, S \in SUBSET RawDays,
                D \in SUBSET RawDays,
                st \in {default_data.settings,
                         [cycle_length |-> 30, luteal_phase |-> 12, theme |-> "dark"]} } }

\* two objects that differ only in values of keys they lack are the same file
RawFiles ==
    {[kind |-> "missing"], [kind |-> "garbage"], [kind |-> "json", type |-> "other"]}
    \cup {o \in RawObjects :
             /\ "periods" \notin o.keys => o.data.periods = <<>>
             /\ "period_levels" \notin o.keys => o.data.period_levels = EmptyLevels
             /\ "sex" \notin o.keys => o.data.sex = <<>>
             /\ "settings" \notin o.keys => o.data.settings = default_data.settings
             /\ "period_days" \notin o.keys => o.data.period_days = {}}

NextLoad ==
    /\ query = NoQuery
    /\ \E raw \in RawFiles, write_ok \in BOOLEAN : load(raw, write_ok)

SpecLoad == InitPredict /\ [][NextLoad]_vars

\* the prediction and the month status given lists in which an entry is not
\* a date: BadDate is "2024-02-30", a day February does not have
BadDate == <<2024, 2, 30>>
MaxBadLen == 2
BadStartLists == SeqsUpTo({<<2024, 1, 1>>, <<2024, 1, 29>>, BadDate}, MaxBadLen)
BadDayLists == SeqsUpTo({<<2024, 1, 30>>, BadDate}, MaxBadLen)
BadPeriodLists ==
    { <<>>,
      << [start |-> <<2024, 1, 30>>, duration |-> 2] >>,
      << [start |-> <<2024, 1, 30>>, duration |-> 2],
         [start |-> BadDate, duration |-> 1] >> }

NextMalformed ==
    /\ query = NoQuery
    /\ \/ \E ps \in BadStartLists, cl \in SettingPairs, la \in LookaheadMonths :
             predict(ps, cl[1], cl[2], la)
       \/ \E P \in BadPeriodLists, pd \in BadDayLists, sx \in BadDayLists,
             cl \in SettingPairs :
             month_status(P, pd, sx, cl[1], cl[2], 2024, 1)

SpecMalformed == InitPredict /\ [][NextMalformed]_vars

\* a data file in which days are stored with intensity 0 (written by hand or
\* by another version: the code reads such entries with int(v) > 0 and
\* levels.get(d, 0)), on which days are tapped and the migration is run
MaxZeroDay == 2
ZeroDays == 1..MaxZeroDay
ZeroLevelFiles ==
    { save_data([default_data EXCEPT !.period_levels = L,
                                     !.has_period_days = (D # {}),
                                     !.period_days = D]) :
        L \in UNION { [S -> InitLevelValues] : S \in SUBSET ZeroDays },
        D \in SUBSET LegacyDays }

InitZero ==
    /\ file \in ZeroLevelFiles
    /\ budget = MaxOps
    /\ InitHistory

NextZero ==
    \/ \E d \in ZeroDays : toggle_period_day(d)
    \/ migrate_period_days_to_levels
    \/ undo

SpecZero == InitZero /\ [][NextZero]_vars

\* the settings set to any integers int() returns, between taps and undos,
\* from a new data file
MaxSetting == 1
MaxTapDay == 2
IntSettingsInputs ==
    { [cycle_length |-> c, luteal_phase |-> l, theme |-> t] :
        c \in (0 - 1)..MaxSetting, l \in {0, DefaultLutealPhase},
        t \in {NoTheme, "dark"} }

NextRange ==
    \/ \E d \in 1..MaxTapDay : toggle_period_day(d)
    \/ \E s \in IntSettingsInputs : set_settings(s)
    \/ undo

SpecRange == InitPeriods /\ [][NextRange]_vars

\* intimacy days added and toggled, undone and redone, from a new data file
MaxSexEventDay == 2
MaxSexOps == 4
SexEventDays == 1..MaxSexEventDay

InitSex ==
    /\ file = default_data
    /\ budget = MaxSexOps
    /\ InitHistory

NextSex ==
    \/ \E d \in SexEventDays : add_sex(d)
    \/ \E d \in SexEventDays : toggle_sex(d)
    \/ undo
    \/ redo

SpecSex == InitSex /\ [][NextSex]_vars

\* taps, undos and redos on a new or legacy data file, with the undos made
\* in a row and the redos that follow them recorded in `trip`
MaxTripOps == 6

InitTrip ==
    /\ file \in {default_data} \cup LegacyFiles
    /\ budget = MaxTripOps
    /\ undo_stack = <<>>
    /\ redo_stack = <<>>
    /\ last = NoOp
    /\ last2 = NoOp
    /\ prev = file
    /\ run = NoRun
    /\ query = NoQuery
    /\ trip = IdleTrip
    /\ und = OtherPhase

NextRoundTrip ==
    \/ toggle_period_day(1)
    \/ undo
    \/ redo

SpecTrip == InitTrip /\ [][NextRoundTrip]_vars

\* every operation that touches period_levels, from a new data file
MaxLevelDay == 1
MaxLevelDuration == 1
MaxLevelOps == 4

InitLevels ==
    /\ file = default_data
    /\ budget = MaxLevelOps
    /\ InitHistory

NextLevels ==
    \/ \E d \in 1..MaxLevelDay : toggle_period_day(d)
    \/ \E n \in 1..MaxLevelDuration : add_period(1, n)
    \/ remove_period(1)
    \/ \E n \in 1..MaxLevelDuration : edit_period(1, n)
    \/ migrate_period_days_to_levels
    \/ clear_all
    \/ undo
    \/ redo

SpecLevels == InitLevels /\ [][NextLevels]_vars

\* days tapped and periods edited on a new or legacy data file
MaxEditDay == 4
MaxEditStart == 1
MaxEditDuration == 2

NextEdit ==
    \/ \E d \in 1..MaxEditDay : toggle_period_day(d)
    \/ \E s \in 1..MaxEditStart, n \in 1..MaxEditDuration : edit_period(s, n)

SpecEdit == Init /\ [][NextEdit]_vars

\* ------------------------------------------------------------------ claims
PresentDays(data) == {d \in DOMAIN data.period_levels : data.period_levels[d] >= 1}
Covered(p) == p.start..(p.start + p.duration - 1)
Level(data, d) == Get(data.period_levels, d)

\* iv lists exactly the maximal runs of consecutive days of `present`
IsMaximalRuns(iv, present) ==
    LET I == 1..Len(iv)
    IN /\ \A i \in I : i < Len(iv) => iv[i].start < iv[i + 1].start
       /\ \A i, j \in I : i # j => Covered(iv[i]) \cap Covered(iv[j]) = {}
       /\ UNION {Covered(iv[i]) : i \in I} = present
       /\ \A i \in I : /\ iv[i].duration >= 1
                        /\ (iv[i].start - 1) \notin present
                        /\ (iv[i].start + iv[i].duration) \notin present

MutationOps == {"toggle_period_day", "toggle_sex", "add_sex", "set_settings",
                "add_period", "remove_period", "edit_period", "clear_all",
                "set_settings_text"}

\* the call `l` was a mutation (a migration counts when it returned True)
IsMutation(l) == l.op \in MutationOps \/ (l.op = "migrate" /\ l.ret = "True")

\* a and b agree on every field but the derived `periods` list
SameButPeriods(a, b) == [a EXCEPT !.periods = <<>>] = [b EXCEPT !.periods = <<>>]

\* C1: after any sequence of period-day mutations from the empty store the
\* stored interval list is exactly the maximal runs of consecutive present
\* days: sorted by start, pairwise disjoint, covering exactly the days with
\* intensity >= 1, and neither the day before a run nor the day after it is
\* present.
C1_CompactionIsMaximalRuns ==
    IsMaximalRuns(file.periods, PresentDays(file))

\* three taps leave a two-day run, a gap of one day and a single day
C1_Witness ==
    /\ last.op = "toggle_period_day"
    /\ file.periods = << [start |-> 1, duration |-> 2], [start |-> 4, duration |-> 1] >>
    /\ PresentDays(file) = {1, 2, 4}

\* C2 as stated: for any single mutation taking the stored data S0 to S1, the
\* undo that follows stores exactly S0 again and the redo right after that
\* undo stores exactly S1 again.  (In the state after the mutation prev is S0;
\* in the state after the undo prev is S1.)
C2_UndoRestoresExactly ==
    [][ /\ (IsMutation(last) /\ last'.op = "undo") => file' = prev
        /\ (IsMutation(last2) /\ last.op = "undo" /\ last'.op = "redo") => file' = prev
      ]_vars

\* C2 amended: the undo after a mutation succeeds and stores S0 with its
\* `periods` list rederived from S0's period_levels (hence exactly S0 whenever
\* S0's periods already was that compaction, as after any save); the redo right
\* after that undo succeeds and stores exactly S1.
C2_UndoRedoRoundTrip ==
    [][ /\ (IsMutation(last) /\ last'.op = "undo") =>
              /\ last'.ret = "True"
              /\ SameButPeriods(file', prev)
              /\ IsMaximalRuns(file'.periods, PresentDays(prev))
        /\ (IsMutation(last2) /\ last.op = "undo" /\ last'.op = "redo") =>
              /\ last'.ret = "True"
              /\ file' = prev
      ]_vars

\* a mutation, its undo and the redo have run, and the redo changed the data
C2_Witness ==
    /\ last.op = "redo" /\ last.ret = "True"
    /\ last2.op = "undo" /\ last2.ret = "True"
    /\ file # prev
    /\ Len(undo_stack) = 1 /\ redo_stack = <<>>

\* C3: a mutation leaves the redo stack empty, and a redo issued right after a
\* mutation (whatever undos came before it) returns False and changes neither
\* the stored data nor either stack.
C3_MutationClearsRedo ==
    [][ /\ IsMutation(last') => redo_stack' = <<>>
        /\ (IsMutation(last) /\ last'.op = "redo") =>
              /\ last'.ret = "False"
              /\ UNCHANGED <<file, undo_stack, redo_stack>>
      ]_vars

\* a tap, an undo, a second tap and then a redo that found nothing to redo
C3_Witness ==
    /\ last.op = "redo" /\ last.ret = "False"
    /\ IsMutation(last2)
    /\ und.phase = "other"
    /\ undo_stack # <<>>

\* C5: undo on an empty undo stack and redo on an empty redo stack return
\* False and leave the stored data and both stacks unchanged.
C5_EmptyStackNoOp ==
    [][ /\ (last'.op = "undo" /\ undo_stack = <<>>) =>
              /\ last'.ret = "False"
              /\ UNCHANGED <<file, undo_stack, redo_stack>>
        /\ (last'.op = "redo" /\ redo_stack = <<>>) =>
              /\ last'.ret = "False"
              /\ UNCHANGED <<file, undo_stack, redo_stack>>
      ]_vars

\* an undo found its stack empty while snapshots wait on the redo stack
C5_Witness ==
    /\ last.op = "undo" /\ last.ret = "False"
    /\ undo_stack = <<>>
    /\ Len(redo_stack) >= 2

\* C6 as stated: undo on a non-empty undo stack returns True, pushes the
\* current data on the redo stack, pops the newest undo snapshot and makes
\* that snapshot the stored data; redo on a non-empty redo stack does the same
\* with the stacks exchanged.
C6_RestoresSnapshotItself ==
    [][ /\ (last'.op = "undo" /\ undo_stack # <<>>) =>
              /\ last'.ret = "True"
              /\ redo_stack' = Append(redo_stack, file)
              /\ undo_stack' = SubSeq(undo_stack, 1, Len(undo_stack) - 1)
              /\ file' = undo_stack[Len(undo_stack)]
        /\ (last'.op = "redo" /\ redo_stack # <<>>) =>
              /\ last'.ret = "True"
              /\ undo_stack' = Append(undo_stack, file)
              /\ redo_stack' = SubSeq(redo_stack, 1, Len(redo_stack) - 1)
              /\ file' = redo_stack[Len(redo_stack)]
      ]_vars

\* C6 amended: as stated, except that the snapshot popped is stored with its
\* `periods` list rederived from its period_levels (so it is stored unchanged
\* whenever its periods already was that compaction).
C6_UndoRedoLifo ==
    [][ /\ (last'.op = "undo" /\ undo_stack # <<>>) =>
              /\ last'.ret = "True"
              /\ redo_stack' = Append(redo_stack, file)
              /\ undo_stack' = SubSeq(undo_stack, 1, Len(undo_stack) - 1)
              /\ SameButPeriods(file', undo_stack[Len(undo_stack)])
              /\ IsMaximalRuns(file'.periods, PresentDays(undo_stack[Len(undo_stack)]))
        /\ (last'.op = "redo" /\ redo_stack # <<>>) =>
              /\ last'.ret = "True"
              /\ undo_stack' = Append(undo_stack, file)
              /\ redo_stack' = SubSeq(redo_stack, 1, Len(redo_stack) - 1)
              /\ SameButPeriods(file', redo_stack[Len(redo_stack)])
              /\ IsMaximalRuns(file'.periods, PresentDays(redo_stack[Len(redo_stack)]))
      ]_vars

\* a redo has just restored a snapshot while both stacks hold several more
C6_Witness ==
    /\ last.op = "redo" /\ last.ret = "True"
    /\ last2.op = "undo" /\ last2.ret = "True"
    /\ Len(undo_stack) >= 2
    /\ Len(redo_stack) >= 2

\* C4: the undo stack never holds more than 50 snapshots, and the snapshot
\* dropped at the bound is the oldest: after 51 mutations from process start
\* the stack holds 50 snapshots, the oldest being the data after the first
\* mutation; of the undos that follow exactly 50 return True, each taking one
\* snapshot, the 51st returns False, and the data then stored is the data after
\* the first mutation, not the data the process started with.
C4_UndoStackBounded ==
    [][ /\ Len(undo_stack) <= MaxUndo /\ Len(undo_stack') <= MaxUndo
        /\ (und'.phase = "mutating" /\ und'.nmut = MaxUndo + 1) =>
              /\ Len(undo_stack') = MaxUndo
              /\ undo_stack'[1] = und'.first
        /\ (und'.phase = "undoing" /\ und'.nmut = MaxUndo + 1) =>
              /\ Len(undo_stack') = MaxUndo - und'.nundo
              /\ last'.op = "undo" => (last'.ret = "True" <=> und.nundo < MaxUndo)
              /\ und'.nundo = MaxUndo => (file' = und'.first /\ file' # und'.start)
      ]_vars

\* 51 taps, 50 successful undos and a 51st undo that found nothing
C4_Witness ==
    /\ und.phase = "undoing" /\ und.nmut = MaxUndo + 1 /\ und.nundo = MaxUndo
    /\ last.op = "undo" /\ last.ret = "False"
    /\ last2.op = "undo" /\ last2.ret = "True"
    /\ file = und.first /\ file # und.start
    /\ Len(redo_stack) = MaxUndo

\* C7: a tap moves the day's level 0 -> 1 -> 2 -> 3 -> 0, level 0 being an
\* absent entry, so four taps in a row on one day bring it back to the level
\* it had before the first of them.
C7_CycleOfFour ==
    [][ /\ last'.op = "toggle_period_day" =>
              LET d == last'.arg[1] IN
              /\ Level(file', d) = (Level(file, d) + 1) % 4
              /\ Level(file', d) = 0 => d \notin DOMAIN file'.period_levels
        /\ run'.n = 4 =>
              /\ Level(file', run'.day) = run'.from
              /\ run'.from = 0 => run'.day \notin DOMAIN file'.period_levels
      ]_vars

\* four taps in a row that started from level 2 and wrapped through absent
C7_Witness ==
    /\ run.n = 4 /\ run.from = 2
    /\ last.op = "toggle_period_day"
    /\ Level(file, run.day) = 2

HasLegacy(data) == data.has_period_days /\ data.period_days # {}

\* C8: a migration of data with a non-empty legacy day list returns True and
\* leaves every legacy day that was absent or 0 at intensity 1, every legacy
\* day that was at 1 or more at exactly that intensity, every other day as it
\* was, and no legacy list in the data.
C8_MigrationNeverLowers ==
    [][ (last'.op = "migrate" /\ HasLegacy(file)) =>
          LET legacy == file.period_days
              others == ((DOMAIN file.period_levels) \cup
                         (DOMAIN file'.period_levels)) \ legacy
          IN /\ last'.ret = "True"
             /\ \A d \in legacy :
                   /\ d \in DOMAIN file'.period_levels
                   /\ Level(file, d) = 0 => file'.period_levels[d] = 1
                   /\ Level(file, d) >= 1 => file'.period_levels[d] = Level(file, d)
             /\ \A d \in others :
                   /\ d \in DOMAIN file.period_levels
                   /\ d \in DOMAIN file'.period_levels
                   /\ file'.period_levels[d] = file.period_levels[d]
             /\ ~file'.has_period_days
             /\ file'.period_days = {}
      ]_vars

\* a migration met a legacy day that two taps had already marked medium
\* and left it at medium
C8_Witness ==
    /\ last.op = "migrate" /\ last.ret = "True"
    /\ prev.period_days = {1}
    /\ Level(prev, 1) = 2 /\ Level(file, 1) = 2
    /\ ~file.has_period_days

\* C9: a migration of data whose legacy day list is absent or empty returns
\* False and leaves the stored data and both stacks unchanged; so does a
\* migration run directly after another migration.
C9_MigrationIdempotent ==
    [][ /\ (last'.op = "migrate" /\ ~HasLegacy(file)) =>
              /\ last'.ret = "False"
              /\ UNCHANGED <<file, undo_stack, redo_stack>>
        /\ (last.op = "migrate" /\ last'.op = "migrate") =>
              /\ last'.ret = "False"
              /\ UNCHANGED <<file, undo_stack, redo_stack>>
      ]_vars

\* a second migration, right after one that migrated, found nothing to do
C9_Witness ==
    /\ last.op = "migrate" /\ last.ret = "False"
    /\ last2.op = "migrate" /\ last2.ret = "True"
    /\ file = prev
    /\ Len(undo_stack) = 1

\* C10: a migration that returns True pushes the data it found, legacy list
\* included, on the undo stack and clears the redo stack; the undo that
\* follows brings back the legacy list and the intensities of before, and a
\* migration after that undo returns True again.
C10_MigrationIsUndoable ==
    [][ /\ (last'.op = "migrate" /\ last'.ret = "True") =>
              /\ HasLegacy(file)
              /\ undo_stack' # <<>>
              /\ undo_stack'[Len(undo_stack')] = file
              /\ Len(undo_stack) < MaxUndo => undo_stack' = Append(undo_stack, file)
              /\ redo_stack' = <<>>
        /\ (last.op = "migrate" /\ last.ret = "True" /\ last'.op = "undo") =>
              /\ last'.ret = "True"
              /\ file'.has_period_days = prev.has_period_days
              /\ file'.period_days = prev.period_days
              /\ file'.period_levels = prev.period_levels
              /\ HasLegacy(file')
        /\ (last2.op = "migrate" /\ last2.ret = "True" /\ last.op = "undo"
               /\ last'.op = "migrate") =>
              last'.ret = "True"
      ]_vars

\* a migration, its undo, and the migration run again
C10_Witness ==
    /\ last.op = "migrate" /\ last.ret = "True"
    /\ last2.op = "undo" /\ last2.ret = "True"
    /\ HasLegacy(prev) /\ ~HasLegacy(file)
    /\ redo_stack = <<>>
    /\ Len(undo_stack) = 1 /\ undo_stack[1] = prev

\* the stored periods list is the compaction of the stored period_levels
PeriodsFollowLevels(data) == IsMaximalRuns(data.periods, PresentDays(data))

\* the call `l` wrote the data file
Saved(l) == l.op # "init" /\ l.ret # "False"

AltPeriods == {days_to_periods(D) : D \in SUBSET Days}

\* C12: the stored periods list is never trusted: for the stored file and any
\* file that differs from it only in the periods list, remove_period and
\* edit_period write the same file, and the month status and the prediction
\* computed from the loaded data are the same.
C12_PeriodsNeverTrusted ==
    \A P \in AltPeriods :
        LET other == [file EXCEPT !.periods = P]
        IN /\ \A st \in Starts :
                 save_data(remove_period_data(file, st))
                   = save_data(remove_period_data(other, st))
           /\ \A st \in Starts, n \in Durations :
                 save_data(edit_period_data(file, st, n))
                   = save_data(edit_period_data(other, st, n))
           /\ status_of(file, 2024, 1) = status_of(other, 2024, 1)
           /\ prediction_of(file) = prediction_of(other)

\* C19: a set_settings call whose cycle length or luteal phase is non-numeric
\* is rejected before any mutation: the error reaches the caller and the stored
\* data, the undo stack and the redo stack are exactly as before the call.
C19_InvalidSettingsChangeNothing ==
    [][ (last'.op = "set_settings_text"
           /\ ~(IsNumeric(last'.arg[1]) /\ IsNumeric(last'.arg[2]))) =>
          /\ last'.ret = "ValueError"
          /\ file' = file
          /\ undo_stack' = undo_stack
          /\ redo_stack' = redo_stack
      ]_vars

\* the calls during which the write to data.json failed
WriteFailed(l) ==
    l.op \in {"toggle_period_day_write_fails", "migrate_write_fails",
              "undo_write_fails", "redo_write_fails"}

\* C20: whenever the backend write fails during an operation that saves (a
\* mutation, a migration, an undo or a redo) the caller gets a hard error:
\* never the result of a success (None, True) and never the ordinary no-op
\* result False.
C20_WriteFailureIsLoud ==
    WriteFailed(last) =>
        /\ last.ret \notin {"None", "True", "False"}
        /\ last.ret = "OSError"

\* the documented default: no periods, no levels, no intimacy days, 28 and 14
IsDefaultState(data) ==
    /\ data.periods = <<>>
    /\ data.period_levels = EmptyLevels
    /\ data.sex = <<>>
    /\ data.settings.cycle_length = 28
    /\ data.settings.luteal_phase = 14

\* the file holds a complete state: a JSON object with the four keys
CompleteState(raw) ==
    raw.kind = "json" /\ raw.type = "object" /\ StateKeys \subseteq raw.keys

\* C18: loading when no file exists, or when the stored representation is
\* unreadable or only partially valid, returns the documented default and
\* never raises.  (Stated for a backend that can be written, so that saving
\* the substituted default does not fail.)
C18_LoadYieldsDefault ==
    (query.op = "load_data" /\ query.write_ok /\ ~CompleteState(query.raw)) =>
        /\ query.out.raised = "no"
        /\ IsDefaultState(query.out.data)

\* the last call was predict_from_periods and it returned a value
Predicted == query.op = "predict" /\ query.out.outcome = "ok"

\* the dates of a list of ISO strings
DatesOf(isos) == {to_date(isos[i]) : i \in 1..Len(isos)}
SetMax(S) == CHOOSE m \in S : \A x \in S : m >= x

\* C13: predict called with an empty list of starts returns empty ovulation,
\* fertile-window and forecast lists together with an average cycle length
\* equal to the configured cycle length.
C13_EmptyStartsReportCycleLength ==
    (Predicted /\ query.starts = <<>>) =>
        /\ query.out.ovulations = <<>>
        /\ query.out.fertile_windows = <<>>
        /\ query.out.predicted_cycles = <<>>
        /\ "avg_cycle" \in DOMAIN query.out
        /\ query.out.avg_cycle = query.cycle_length

\* C14: with two or more starts, given in any order, the average cycle length
\* is the mean of the gaps between successive sorted starts rounded to the
\* nearest integer, a mean ending in .5 going to the even neighbour, whatever
\* the configured cycle length; with exactly one start it is the configured
\* cycle length.  (The gaps of the sorted starts add up to latest - earliest.)
C14_AverageIsRoundedMean ==
    (Predicted /\ query.starts # <<>>) =>
        LET n == Len(query.starts) - 1
            total == SetMax(DatesOf(query.starts)) - SetMin(DatesOf(query.starts))
            avg == query.out.avg_cycle
        IN IF n = 0 THEN avg = query.cycle_length
           ELSE \/ 2 * avg * n - n < 2 * total /\ 2 * total < 2 * avg * n + n
                \/ 2 * total = 2 * avg * n + n /\ avg % 2 = 0
                \/ 2 * total = 2 * avg * n - n /\ avg % 2 = 0

\* three starts given latest first with gaps of 0 and 25 days: the mean 12.5
\* is reported as 12 under a configured cycle length of 28
C14_Witness ==
    /\ Predicted
    /\ query.starts = << <<2024, 1, 29>>, <<2024, 1, 4>>, <<2024, 1, 4>> >>
    /\ query.cycle_length = DefaultCycleLength
    /\ query.out.avg_cycle = 12

\* C15: for a non-empty list of starts the forecast list returned is exactly
\* last, last + avg, last + 2*avg, ... (last the latest start, avg the average
\* cycle length): its first entry is the latest start, it holds every term at
\* most lookahead_months * 31 days after last, and no later term.
C15_ForecastIsArithmetic ==
    (Predicted /\ query.starts # <<>>) =>
        LET p == query.out.predicted_cycles
            latest == SetMax(DatesOf(query.starts))
            avg == query.out.avg_cycle
            limit == query.lookahead_months * 31
        IN /\ Len(p) >= 1
           /\ p[1] = iso(latest)
           /\ \A i \in 1..Len(p) :
                 /\ ValidIso(p[i])
                 /\ to_date(p[i]) = latest + (i - 1) * avg
                 /\ to_date(p[i]) - latest <= limit
           /\ Len(p) * avg > limit

\* two starts given latest first, three days apart, three months ahead: the
\* 32nd and last forecast lies exactly 93 days after the latest start
C15_Witness ==
    /\ Predicted
    /\ query.starts = << <<2024, 1, 4>>, <<2024, 1, 1>> >>
    /\ query.lookahead_months = 3
    /\ Len(query.out.predicted_cycles) = 32
    /\ to_date(query.out.predicted_cycles[32]) = to_date(<<2024, 1, 4>>) + 93

\* C16: the i-th ovulation day is the i-th forecast start plus (average cycle
\* length - luteal phase) days and the i-th fertile window is the 7 days from
\* 5 days before that ovulation day to 1 day after it, both ends included;
\* starts 2024-01-01 and 2024-01-29 with luteal phase 14 give average 28,
\* ovulation 2024-02-12 and fertile window 2024-02-07..2024-02-13 for the
\* cycle that starts 2024-01-29.
C16_OvulationAndFertileWindow ==
    (Predicted /\ query.starts # <<>>) =>
        LET out == query.out
            shift == out.avg_cycle - query.luteal_phase
        IN /\ Len(out.ovulations) = Len(out.predicted_cycles)
           /\ Len(out.fertile_windows) = Len(out.predicted_cycles)
           /\ \A i \in 1..Len(out.predicted_cycles) :
                 LET ov == to_date(out.predicted_cycles[i]) + shift
                 IN /\ out.ovulations[i] = iso(ov)
                    /\ out.fertile_windows[i] = <<iso(ov - 5), iso(ov + 1)>>
                    /\ to_date(out.fertile_windows[i][2])
                          - to_date(out.fertile_windows[i][1]) + 1 = 7
           /\ (query.starts = << <<2024, 1, 1>>, <<2024, 1, 29>> >>
                  /\ query.luteal_phase = 14) =>
                 /\ out.avg_cycle = 28
                 /\ out.predicted_cycles[1] = <<2024, 1, 29>>
                 /\ out.ovulations[1] = <<2024, 2, 12>>
                 /\ out.fertile_windows[1] = << <<2024, 2, 7>>, <<2024, 2, 13>> >>

\* the documented example has been computed
C16_Witness ==
    /\ Predicted
    /\ query.starts = << <<2024, 1, 1>>, <<2024, 1, 29>> >>
    /\ query.luteal_phase = 14
    /\ query.out.ovulations[1] = <<2024, 2, 12>>
    /\ Len(query.out.ovulations) >= 2

\* the last call was day_status_for_month and it returned a value
StatusReturned == query.op = "month_status" /\ query.out.outcome = "ok"

\* C17: the month status is a map whose keys are exactly the days of the
\* target month that get at least one tag (no key with an empty tag set, none
\* outside the month); a day is tagged `period` iff it lies in the span of
\* some interval (start <= day < start + duration) or is a present day, `sex`
\* iff it is an intimacy day, `ovulation` iff it is a predicted ovulation day,
\* `fertile` iff it lies in a predicted fertile window, ends included.
C17_StatusTagsExactly ==
    StatusReturned =>
        LET q == query
            st == q.out.status
            pred == predict_from_periods(
                        [i \in 1..Len(q.periods) |-> q.periods[i].start],
                        q.cycle_length, q.luteal_phase, 6)
            first == ymd2ord(q.year, q.month, 1)
            month_days == first..(first + DaysInMonth(q.year, q.month) - 1)
            period == DatesOf(q.period_days) \cup
                      UNION {to_date(q.periods[i].start)..
                               (to_date(q.periods[i].start) + q.periods[i].duration - 1) :
                             i \in 1..Len(q.periods)}
            sex == DatesOf(q.sex_dates)
            ovulation_days == DatesOf(pred.ovulations)
            fertile == UNION {to_date(pred.fertile_windows[i][1])..
                                to_date(pred.fertile_windows[i][2]) :
                              i \in 1..Len(pred.fertile_windows)}
            tagged == [c \in month_days |->
                         {t \in {"period", "sex", "ovulation", "fertile"} :
                            \/ t = "period" /\ c \in period
                            \/ t = "sex" /\ c \in sex
                            \/ t = "ovulation" /\ c \in ovulation_days
                            \/ t = "fertile" /\ c \in fertile}]
        IN /\ \A k \in DOMAIN st : ValidIso(k) /\ st[k] # {}
           /\ {to_date(k) : k \in DOMAIN st} = {c \in month_days : tagged[c] # {}}
           /\ \A k \in DOMAIN st : st[k] = tagged[to_date(k)]

\* January 2024 for a period of 30 January to 1 February and an intimacy day
\* on 1 February: the 30th and 31st are tagged period, no day of February is
\* a key, and the untagged days of January are not keys either
C17_Witness ==
    /\ StatusReturned
    /\ query.year = 2024 /\ query.month = 1
    /\ query.periods = << [start |-> <<2024, 1, 30>>, duration |-> 3] >>
    /\ query.period_days = <<>>
    /\ query.sex_dates = << <<2024, 2, 1>> >>
    /\ <<2024, 1, 31>> \in DOMAIN query.out.status
    /\ "period" \in query.out.status[<<2024, 1, 31>>]
    /\ <<2024, 2, 1>> \notin DOMAIN query.out.status
    /\ <<2024, 1, 1>> \notin DOMAIN query.out.status

\* the entries of a list of ISO strings that are dates
valid_entries(isos) == SelectSeq(isos, ValidIso)

\* the entries of a periods list whose start is a date
ValidStart(p) == ValidIso(p.start)
valid_periods(periods) == SelectSeq(periods, ValidStart)

\* C21: a malformed date among the starts given to predict, or among the day
\* strings or interval starts given to the month status, is skipped: the call
\* returns (it does not abort) and its result is the result computed from the
\* valid entries alone.
C21_MalformedEntrySkipped ==
    /\ query.op = "predict" =>
          query.out = predict_from_periods(valid_entries(query.starts),
                                           query.cycle_length, query.luteal_phase,
                                           query.lookahead_months)
    /\ query.op = "month_status" =>
          query.out = day_status_for_month(valid_periods(query.periods),
                                           valid_entries(query.period_days),
                                           valid_entries(query.sex_dates),
                                           query.cycle_length, query.luteal_phase,
                                           query.year, query.month)

\* the same data without the days stored at intensity 0
without_zeros(data) ==
    [data EXCEPT !.period_levels =
        [d \in {x \in DOMAIN data.period_levels : data.period_levels[x] # 0} |->
            data.period_levels[d]]]

\* two data files are the same up to days stored at intensity 0
SameUpToZeros(a, b) == without_zeros(a) = without_zeros(b)

\* C22: a day stored with intensity 0 is the same as a day with no entry:
\* for the stored data and the same data without its 0 entries the compaction
\* is the same, a tap on any day and the migration give the same data up to 0
\* entries, and the month status the renderers compute (present days = the
\* keys of the intensity map) is the same; in particular a day stored at 0 is
\* not tagged `period`.
C22_ZeroIsAbsent ==
    LET bare == without_zeros(file)
        st == status_of(file, 2024, 1)
    IN /\ levels_to_periods(file.period_levels) = levels_to_periods(bare.period_levels)
       /\ \A d \in ZeroDays :
             SameUpToZeros(
                 save_data([file EXCEPT !.period_levels = cycle_level(@, d)]),
                 save_data([bare EXCEPT !.period_levels = cycle_level(@, d)]))
       /\ SameUpToZeros(save_data(migrated(file)), save_data(migrated(bare)))
       /\ st = status_of(bare, 2024, 1)
       /\ \A d \in DOMAIN file.period_levels :
             (file.period_levels[d] = 0 /\ day_iso(d) \in DOMAIN st.status) =>
                 "period" \notin st.status[day_iso(d)]

\* C23: in every state reachable from the default state the stored cycle
\* length and luteal phase are positive integers and the theme, when one is
\* stored, is light or dark.
C23_SettingsStayValid ==
    /\ file.settings.cycle_length >= 1
    /\ file.settings.luteal_phase >= 1
    /\ file.settings.theme \in {NoTheme, "light", "dark"}

\* C25: in every state reachable from the default state the prediction the
\* statistics view asks for and the month status the calendar asks for both
\* return: the loop of predict_from_periods ends with a finite forecast list.
C25_PredictionTerminates ==
    /\ prediction_of(file).outcome = "ok"
    /\ status_of(file, 2024, 1).outcome = "ok"

\* the days of a sex list, and a list that holds no day twice
SexSet(data) == {data.sex[i] : i \in 1..Len(data.sex)}
NoDuplicates(s) == \A i, j \in 1..Len(s) : s[i] = s[j] => i = j

\* C24: after any sequence of add_sex, toggle_sex, undo and redo from the
\* default state the stored sex list holds no day twice; toggle_sex(d) flips
\* the membership of d and of no other day; and two toggle_sex(d) calls in a
\* row leave every day's membership as it was before the first.
C24_SexHasSetSemantics ==
    [][ /\ NoDuplicates(file.sex) /\ NoDuplicates(file'.sex)
        /\ last'.op = "toggle_sex" =>
              SexSet(file') = IF last'.arg[1] \in SexSet(file)
                              THEN SexSet(file) \ {last'.arg[1]}
                              ELSE SexSet(file) \cup {last'.arg[1]}
        /\ (last.op = "toggle_sex" /\ last'.op = "toggle_sex"
               /\ last'.arg = last.arg) =>
              SexSet(file') = SexSet(prev)
      ]_vars

\* days 1 and 2 were added, then day 1 was toggled off and on again: both
\* days are stored once, day 1 now after day 2
C24_Witness ==
    /\ last.op = "toggle_sex" /\ last.arg[1] = 1
    /\ last2.op = "toggle_sex" /\ last2.arg[1] = 1
    /\ file.sex = <<2, 1>>
    /\ SexSet(prev) = {2}

\* the call `l` was an undo or a redo, whether or not its write went through
IsUndoOrRedo(l) == l.op \in {"undo", "redo", "undo_write_fails", "redo_write_fails"}

\* C26: whenever undo or redo returns False the stored data, the undo stack
\* and the redo stack are what they were before the call, also when the call
\* fails part-way because data.json cannot be written.
C26_FalseMeansUntouched ==
    [][ (IsUndoOrRedo(last') /\ last'.ret = "False") =>
            UNCHANGED <<file, undo_stack, redo_stack>>
      ]_vars

\* C27 as stated: k successful undos followed by k redos, with no mutation
\* in between, restore the stored data, the undo stack and the redo stack to
\* exactly what they were before the first of the undos; undo and redo each
\* preserve the combined number of snapshots of the two stacks.
C27_RoundTripRestoresExactly ==
    [][ /\ trip'.phase = "redoing" =>
              <<file', undo_stack', redo_stack'>> = trip'.expect
        /\ last'.op \in {"undo", "redo"} =>
              Len(undo_stack') + Len(redo_stack') = Len(undo_stack) + Len(redo_stack)
      ]_vars

\* C27 amended: k successful undos followed by k redos restore the stored
\* data and the redo stack exactly, and the undo stack up to the `periods`
\* lists of the snapshots that went through the round trip, which are
\* rederived from their period_levels (so the undo stack is restored exactly
\* whenever its snapshots were written by a save); undo and redo each
\* preserve the combined number of snapshots of the two stacks.
C27_RoundTripRestores ==
    [][ /\ trip'.phase = "redoing" =>
              /\ file' = trip'.expect[1]
              /\ redo_stack' = trip'.expect[3]
              /\ Len(undo_stack') = Len(trip'.expect[2])
              /\ \A i \in 1..Len(undo_stack') :
                    undo_stack'[i] \in {trip'.expect[2][i], save_data(trip'.expect[2][i])}
        /\ last'.op \in {"undo", "redo"} =>
              Len(undo_stack') + Len(redo_stack') = Len(undo_stack) + Len(redo_stack)
      ]_vars

\* two taps on a legacy file, two undos and two redos: both redos are matched
\* and the oldest snapshot has come back with its periods list rederived
C27_Witness ==
    /\ trip.phase = "redoing" /\ trip.bases = <<>>
    /\ last.op = "redo" /\ last.ret = "True"
    /\ last2.op = "redo" /\ last2.ret = "True"
    /\ Len(undo_stack) = 2 /\ redo_stack = <<>>
    /\ undo_stack # trip.expect[2]
    /\ file = trip.expect[1]

\* C28: in every state reachable from the default state by toggle_period_day,
\* add_period, remove_period, edit_period, the migration, clear_all, undo and
\* redo, every value stored in period_levels is an integer from 1 to 3: level
\* 0 is never stored and no level above 3 is produced.
C28_LevelsInRange ==
    \A d \in DOMAIN file.period_levels : file.period_levels[d] \in 1..3

\* a day tapped up to heavy was then given to add_period, which left it heavy
C28_Witness ==
    /\ last.op = "add_period" /\ last.arg[1] = 1
    /\ Level(prev, 1) = 3
    /\ Level(file, 1) = 3

\* the derived interval list of a data file
Derived(data) == levels_to_periods(data.period_levels)

\* C29 as stated: edit_period(start, new_duration), new_duration >= 1, applied
\* to a state in which start is the start of a derived interval leaves a
\* derived interval that begins at start with duration exactly new_duration,
\* and every other derived interval unchanged.
C29_EditSetsDuration ==
    [][ (last'.op = "edit_period" /\ last'.arg[2] >= 1
           /\ HasPeriod(Derived(file), last'.arg[1])) =>
          LET s == last'.arg[1]
              before == Derived(file)
              after == Derived(file')
          IN /\ InSeq([start |-> s, duration |-> last'.arg[2]], after)
             /\ \A i \in 1..Len(before) :
                   before[i].start # s => InSeq(before[i], after)
             /\ \A i \in 1..Len(after) :
                   after[i].start # s => InSeq(after[i], before)
      ]_vars

\* C29 amended: edit_period(start, new_duration), new_duration >= 1, applied
\* to a state whose stored periods list has an interval at start (the derived
\* list, for data this program wrote) removes the days of that interval and
\* marks start .. start + new_duration - 1.  Afterwards the derived list has
\* an interval that begins at start with duration exactly new_duration
\* provided no other present day lies in start - 1 .. start + new_duration
\* (otherwise the runs merge into one interval), and every interval with no
\* day in that range or in the old interval's span is unchanged.
C29_EditMarksSpan ==
    [][ (last'.op = "edit_period" /\ last'.arg[2] >= 1
           /\ HasPeriod(file.periods, last'.arg[1])) =>
          LET s == last'.arg[1]
              n == last'.arg[2]
              old == s..(s + FindDuration(file.periods, s) - 1)
              kept == PresentDays(file) \ old
              reach == (s - 1)..(s + n)
              before == Derived(file)
          IN /\ PresentDays(file') = kept \cup (s..(s + n - 1))
             /\ file'.periods = Derived(file')
             /\ (kept \cap reach = {}) =>
                   InSeq([start |-> s, duration |-> n], file'.periods)
             /\ \A i \in 1..Len(before) :
                   (Covered(before[i]) \cap (reach \cup old) = {}) =>
                       InSeq(before[i], file'.periods)
      ]_vars

\* the one-day period of day 1 was edited to two days while day 4 stayed a
\* period of its own
C29_Witness ==
    /\ last.op = "edit_period" /\ last.arg = <<1, 2>>
    /\ prev.periods = << [start |-> 1, duration |-> 1], [start |-> 4, duration |-> 1] >>
    /\ file.periods = << [start |-> 1, duration |-> 2], [start |-> 4, duration |-> 1] >>

\* C30: every recorded start given to predict_from_periods has its entry in
\* predicted_cycles and, with it, its ovulation day (the start plus average
\* cycle length minus luteal phase) in ovulations and the fertile window of
\* that day in fertile_windows: the recorded cycles are covered as well as
\* the predicted ones.
C30_RecordedStartsCovered ==
    (Predicted /\ query.starts # <<>>) =>
        LET out == query.out
            shift == out.avg_cycle - query.luteal_phase
        IN \A i \in 1..Len(query.starts) :
              LET ov == to_date(query.starts[i]) + shift
              IN /\ InSeq(query.starts[i], out.predicted_cycles)
                 /\ InSeq(iso(ov), out.ovulations)
                 /\ InSeq(<<iso(ov - 5), iso(ov + 1)>>, out.fertile_windows)
====
